---- MODULE Spec2Model ----
(***************************************************************************)
(* SnapViewer snapshot conversion pipeline.                                *)
(*                                                                         *)
(*   get_trace -> process_alloc_data (classifier, initial allocations,     *)
(*   action replay, finalization) -> trace_to_allocation_data -> make_db   *)
(*   -> cli (zip archive, temporary database clean-up)                     *)
(*                                                                         *)
(* Python lists are sequences (1-based here, 0-based in the source: an     *)
(* element index e of the source is the value e, stored at elements[e+1]). *)
(* A trajectory dict is shared by `data` and `current_data` in the source; *)
(* here `data` owns the records and `current_data` holds positions of      *)
(* `data`.                                                                 *)
(*                                                                         *)
(* Two interactive parts of the viewer are modelled beside the pipeline:   *)
(* the shutdown of qtmp.py's three processes, and the command history of   *)
(* the REPL input widgets (qt.py, qtmp.py, gui.py, tk.py, tui.py).         *)
(***************************************************************************)
EXTENDS Integers, Sequences, FiniteSets, TLC

VARIABLES
    variant,              \* which converter runs: "convert_snap" | "zip_snap"
    dump,                 \* dump["device_traces"]: one event sequence per device
    device_id,            \* --device
    pc,                   \* position of the run
    trace,                \* the device trace returned by get_trace
    ev_idx,               \* number of events the classifier loop has consumed
    elements, initially_allocated, actions, addr_to_alloc,
    init_idx,             \* number of initially_allocated entries made live
    act_idx,              \* number of actions replayed
    current, current_data, data,
    max_size, total_mem, total_summarized_mem, timestep, max_at_time,
    summarized_mem,
    allocations,          \* trace_to_allocation_data's first result
    temp_exists,          \* the NamedTemporaryFile of make_db is on disk
    conn,                 \* sqlite connection: "none" | "open" | "closed"
    batch_start,          \* i of make_db's batch loop
    rows,                 \* rows executed on the cursor, in order
    committed,            \* number of rows made durable by conn.commit()
    db_file_path,         \* cli's db_file_path: FALSE is None, TRUE the temp path
    dest_exists,          \* a file exists at args.output
    dest_entries,         \* archive members written to args.output, in order
    exit_code,            \* -1 while running, else the process exit status
    report,               \* what ended the run early: the error and its message
    terminate_event,      \* qtmp.py: the multiprocessing.Event, TRUE when set
    gui_process,          \* "running" | "quitting" | "stopped"
    viewer_process,       \* "running" | "signalling" | "stopped"
    message_queue,        \* messages put by the viewer, not yet drained by the GUI
    message_panel,        \* the message the GUI shows
    main_pc,              \* position of the orchestrator in main()
    main_exit,            \* -1 while the orchestrator runs, else its exit status
    interrupt,            \* KeyboardInterrupt in the orchestrator: "none" | "caught" | "uncaught"
    repl_variant,         \* which REPL widget: "qt" | "tui"
    command_history, history_index,
    input_text,           \* the text in the input widget
    reads_in_bounds       \* every command_history[history_index] read so far was in bounds

simVars == <<current, current_data, data, max_size, total_mem,
             total_summarized_mem, timestep, max_at_time, summarized_mem>>
classVars == <<elements, initially_allocated, actions, addr_to_alloc>>
inputVars == <<variant, dump, device_id>>
dbVars == <<temp_exists, conn, batch_start, rows, committed>>
outVars == <<db_file_path, dest_exists, dest_entries>>
qtmpVars == <<terminate_event, gui_process, viewer_process, message_queue,
              message_panel, main_pc, main_exit, interrupt>>
replVars == <<repl_variant, command_history, history_index, input_text, reads_in_bounds>>
guiVars == <<qtmpVars, replVars>>
vars == <<variant, dump, device_id, pc, trace, ev_idx, elements,
          initially_allocated, actions, addr_to_alloc, init_idx, act_idx,
          current, current_data, data, max_size, total_mem,
          total_summarized_mem, timestep, max_at_time, summarized_mem,
          allocations, temp_exists, conn, batch_start, rows, committed,
          db_file_path, dest_exists, dest_entries, exit_code, report,
          terminate_event, gui_process, viewer_process, message_queue,
          message_panel, main_pc, main_exit, interrupt,
          repl_variant, command_history, history_index, input_text,
          reads_in_bounds>>

----------------------------------------------------------------------------
(* Bounds of the explored inputs *)

MaxLen == 3

Kinds == {"alloc", "free", "free_completed", "segment_alloc"}
Addrs == {1, 2}
Sizes == {1, 2}

\* Events carry the keys the pipeline reads.  has_frames = FALSE is an event
\* dict without the "frames" key (a synthetic entry).
Event(k, a, s, hf) ==
    [action |-> k, addr |-> a, size |-> s, has_frames |-> hf, frames |-> <<>>]

EventSet ==
    {Event(k, a, s, TRUE) : k \in Kinds, a \in Addrs, s \in Sizes}
      \cup {Event(k, 1, 1, FALSE) : k \in {"alloc", "free"}}

RECURSIVE SeqsUpTo(_, _)
SeqsUpTo(S, n) ==
    IF n = 0 THEN {<<>>}
    ELSE LET shorter == SeqsUpTo(S, n - 1)
         IN  shorter \cup {Append(s, e) : s \in {t \in shorter : Len(t) = n - 1}, e \in S}

Traces == SeqsUpTo(EventSet, MaxLen)

----------------------------------------------------------------------------
(* Helpers *)

Last(s) == s[Len(s)]

Max(a, b) == IF a >= b THEN a ELSE b

Min(a, b) == IF a <= b THEN a ELSE b

RemoveAt(s, i) == SubSeq(s, 1, i - 1) \o SubSeq(s, i + 1, Len(s))

\* the sequence in its own order
ReverseKept(s) == s

Reverse(s) == [i \in 1..Len(s) |-> s[Len(s) + 1 - i]]

\* "summarized", the elem of the summary track (an integer no element index
\* can equal, so that elem fields stay comparable)
Summarized == -1

----------------------------------------------------------------------------
(* get_trace *)

\* Python's list indexing trace[device_id] for an index that is in range
DeviceTrace(d, id) == IF id >= 0 THEN d[id + 1] ELSE d[Len(d) + id + 1]

\* zip_snap.get_trace has no emptiness check
ChecksEmpty(v) == v # "zip_snap"

\* the loop the simulator is in, given how far each loop got
\* the sequencing without the initial-allocations loop
SimPhaseNoInitial(nInit, iInit, nAct, iAct) ==
    IF iAct < nAct THEN "replay" ELSE "finalize"

SimPhase(nInit, iInit, nAct, iAct) ==
    IF iInit < nInit THEN "initial"
    ELSE IF iAct < nAct THEN "replay"
    ELSE "finalize"

\* nothing has ended the run early
NoReport == [kind |-> "none", expected |-> <<>>, devices |-> <<>>]

\* an uncaught exception of the given kind
ErrorReport(kind) == [kind |-> kind, expected |-> <<>>, devices |-> <<>>]

\* expected = 0 if len(trace) == 1 else f"0 ~ {len(trace) - 1}"
ExpectedRange(d) ==
    IF Len(d) = 1 THEN <<"0">> ELSE <<"0", " ~ ", ToString(Len(d) - 1)>>

\* every device index, whether its trace is empty or not
DevicesWithTraceAll(d, k) == [i \in 1..Len(d) |-> i - 1]

\* [i for i, tr in enumerate(trace) if len(tr) > 0], from position k on
RECURSIVE DevicesWithTrace(_, _)
DevicesWithTrace(d, k) ==
    IF k > Len(d) THEN <<>>
    ELSE IF Len(d[k]) > 0 THEN <<k - 1>> \o DevicesWithTrace(d, k + 1)
    ELSE DevicesWithTrace(d, k + 1)

GetTrace ==
    /\ pc = "get_trace"
    /\ IF device_id >= Len(dump)
       THEN /\ pc' = "exit"
            /\ exit_code' = 1
            /\ report' = [kind |-> "out_of_range", expected |-> ExpectedRange(dump),
                          devices |-> <<>>]
            /\ UNCHANGED trace
       ELSE IF device_id < 0 - Len(dump)
       THEN \* trace[device_id] raises IndexError
            /\ pc' = "exit"
            /\ exit_code' = 1
            /\ report' = ErrorReport("IndexError")
            /\ UNCHANGED trace
       ELSE IF ChecksEmpty(variant) /\ Len(DeviceTrace(dump, device_id)) = 0
       THEN /\ pc' = "exit"
            /\ exit_code' = 1
            /\ report' = [kind |-> "empty_device", expected |-> <<>>,
                          devices |-> DevicesWithTrace(dump, 1)]
            /\ UNCHANGED trace
       ELSE /\ trace' = DeviceTrace(dump, device_id)
            /\ pc' = IF Len(trace') = 0 THEN "finalize" ELSE "classify"
            /\ UNCHANGED <<exit_code, report>>
    /\ UNCHANGED <<inputVars, guiVars, ev_idx, classVars, init_idx, act_idx, simVars,
                   allocations, dbVars, outVars>>

----------------------------------------------------------------------------
(* process_alloc_data: the classifier loop *)

\* segment allocations classified as allocations in every script
AllocActionsWithSegments(v) == {"alloc", "segment_alloc"}

AllocActions(v) ==
    IF v = "zip_snap" THEN {"alloc", "segment_alloc"} ELSE {"alloc"}

\* free_completed events not classified as frees
FreeActionsNoCompleted(v) == {"free"}

FreeActions(v) == {"free", "free_completed"}

\* an insertion that keeps the index an address already has
MapPutKeep(m, k, x) == [a \in DOMAIN m \cup {k} |-> IF a \in DOMAIN m THEN m[a] ELSE x]

MapPut(m, k, x) == [a \in DOMAIN m \cup {k} |-> IF a = k THEN x ELSE m[a]]

\* a removal that leaves the address mapped
MapDelKept(m, k) == m

MapDel(m, k) == [a \in DOMAIN m \ {k} |-> m[a]]

\* a classifier that stores the newest element first, moving the others up
ClassifyEventNewestFirst ==
    /\ pc = "classify"
    /\ ev_idx < Len(trace)
    /\ LET event == trace[ev_idx + 1] IN
       IF event.action \in AllocActions(variant)
       THEN /\ elements' = <<event>> \o elements
            /\ addr_to_alloc' = MapPut(addr_to_alloc, event.addr, Len(elements') - 1)
            /\ actions' = Append(actions, Len(elements') - 1)
            /\ UNCHANGED initially_allocated
       ELSE IF event.action \in FreeActions(variant)
       THEN IF event.addr \in DOMAIN addr_to_alloc
            THEN /\ actions' = Append(actions, addr_to_alloc[event.addr])
                 /\ addr_to_alloc' = MapDel(addr_to_alloc, event.addr)
                 /\ UNCHANGED <<elements, initially_allocated>>
            ELSE /\ elements' = <<event>> \o elements
                 /\ initially_allocated' = Append(initially_allocated, Len(elements') - 1)
                 /\ actions' = Append(actions, Len(elements') - 1)
                 /\ UNCHANGED addr_to_alloc
       ELSE UNCHANGED classVars
    /\ ev_idx' = ev_idx + 1
    /\ pc' = IF ev_idx' < Len(trace) THEN "classify"
             ELSE SimPhase(Len(initially_allocated'), 0, Len(actions'), 0)
    /\ UNCHANGED <<inputVars, guiVars, report, trace, init_idx, act_idx, simVars, allocations,
                   dbVars, outVars, exit_code>>

ClassifyEvent ==
    /\ pc = "classify"
    /\ ev_idx < Len(trace)
    /\ LET event == trace[ev_idx + 1] IN
       IF event.action \in AllocActions(variant)
       THEN /\ elements' = Append(elements, event)
            /\ addr_to_alloc' = MapPut(addr_to_alloc, event.addr, Len(elements') - 1)
            /\ actions' = Append(actions, Len(elements') - 1)
            /\ UNCHANGED initially_allocated
       ELSE IF event.action \in FreeActions(variant)
       THEN IF event.addr \in DOMAIN addr_to_alloc
            THEN /\ actions' = Append(actions, addr_to_alloc[event.addr])
                 /\ addr_to_alloc' = MapDel(addr_to_alloc, event.addr)
                 /\ UNCHANGED <<elements, initially_allocated>>
            ELSE /\ elements' = Append(elements, event)
                 /\ initially_allocated' = Append(initially_allocated, Len(elements') - 1)
                 /\ actions' = Append(actions, Len(elements') - 1)
                 /\ UNCHANGED addr_to_alloc
       ELSE UNCHANGED classVars
    /\ ev_idx' = ev_idx + 1
    /\ pc' = IF ev_idx' < Len(trace) THEN "classify"
             ELSE SimPhase(Len(initially_allocated'), 0, Len(actions'), 0)
    /\ UNCHANGED <<inputVars, guiVars, report, trace, init_idx, act_idx, simVars, allocations,
                   dbVars, outVars, exit_code>>

----------------------------------------------------------------------------
(* process_alloc_data: the timeline simulator *)

\* a trajectory whose first sample is stamped one step late
NewEntryNextStep(elem, ts, off, size) ==
    [elem |-> elem, timesteps |-> <<ts + 1>>, offsets |-> <<off>>,
     size |-> size, color |-> elem]

NewEntry(elem, ts, off, size) ==
    [elem |-> elem, timesteps |-> <<ts>>, offsets |-> <<off>>,
     size |-> size, color |-> elem]

\* advance(n) on the closure's state; st has the fields timestep, total_mem,
\* summarized_mem and max_at_time
\* a summary sample without its size entry
AdvanceSummaryNoSize(sm, ts, total, summ) ==
    [sm EXCEPT !.timesteps = Append(@, ts), !.offsets = Append(@, total)]

AdvanceSummary(sm, ts, total, summ) ==
    [sm EXCEPT !.timesteps = Append(@, ts),
               !.offsets = Append(@, total),
               !.size = Append(@, summ)]

\* an advance that leaves the counter where it was
AdvanceTimestepStuck(ts, n) == ts

AdvanceTimestep(ts, n) == ts + n

Advance(st, n) ==
    [st EXCEPT
       !.summarized_mem = AdvanceSummary(@, st.timestep, st.total_mem, total_summarized_mem),
       !.timestep = AdvanceTimestep(@, n),
       !.max_at_time = @ \o [i \in 1..n |-> st.total_mem + total_summarized_mem]]

SimState ==
    [timestep |-> timestep, total_mem |-> total_mem,
     summarized_mem |-> summarized_mem, max_at_time |-> max_at_time]

SetSimState(st) ==
    /\ timestep' = st.timestep
    /\ total_mem' = st.total_mem
    /\ summarized_mem' = st.summarized_mem
    /\ max_at_time' = st.max_at_time

InitialAlloc ==
    /\ pc = "initial"
    /\ init_idx < Len(initially_allocated)
    /\ LET elem == Reverse(initially_allocated)[init_idx + 1]
           element == elements[elem + 1]
       IN  /\ current' = Append(current, elem)
           /\ data' = Append(data, NewEntry(elem, timestep, total_mem, element.size))
           /\ current_data' = Append(current_data, Len(data'))
           /\ total_mem' = total_mem + element.size
    /\ init_idx' = init_idx + 1
    /\ pc' = SimPhase(Len(initially_allocated), init_idx', Len(actions), 0)
    /\ UNCHANGED <<inputVars, guiVars, report, trace, ev_idx, classVars, act_idx, max_size,
                   total_summarized_mem, timestep, max_at_time, summarized_mem,
                   allocations, dbVars, outVars, exit_code>>

\* a lookup that never finds the element
FindLastNone(cur, elem) == 0

\* next(i for i in reversed(range(len(current))) if current[i] == elem);
\* 0 stands for StopIteration
FindLast(cur, elem) ==
    LET hits == {i \in 1..Len(cur) : cur[i] = elem}
    IN  IF hits = {} THEN 0 ELSE CHOOSE i \in hits : \A j \in hits : j <= i

\* the closing sample taken after the free's advance(1)
CloseRemovedAfterAdvance(t, ts) ==
    [t EXCEPT !.timesteps = Append(@, ts + 1), !.offsets = Append(@, Last(t.offsets))]

\* the closing sample written over the trajectory's last sample
CloseRemovedInPlace(t, ts) ==
    [t EXCEPT !.timesteps = [@ EXCEPT ![Len(@)] = ts]]

CloseRemoved(t, ts) ==
    [t EXCEPT !.timesteps = Append(@, ts), !.offsets = Append(@, Last(t.offsets))]

\* the hold sample without its offset
ShiftEntryOneOffset(t, ts, size) ==
    LET held == [t EXCEPT !.timesteps = Append(@, ts)]
    IN  [held EXCEPT !.timesteps = Append(@, ts + 3),
                     !.offsets = Append(@, Last(held.offsets) - size)]

\* the slide ends later than the advance(3) and advance(1) that follow it
ShiftEntryLate(t, ts, size) ==
    LET held == [t EXCEPT !.timesteps = Append(@, ts),
                          !.offsets = Append(@, Last(t.offsets))]
    IN  [held EXCEPT !.timesteps = Append(@, ts + 5),
                     !.offsets = Append(@, Last(held.offsets) - size)]

\* the slide by the entry's own size instead of the freed block's
ShiftEntryOwnSize(t, ts, size) ==
    LET held == [t EXCEPT !.timesteps = Append(@, ts),
                          !.offsets = Append(@, Last(t.offsets))]
    IN  [held EXCEPT !.timesteps = Append(@, ts + 3),
                     !.offsets = Append(@, Last(held.offsets) - t.size)]

ShiftEntry(t, ts, size) ==
    LET held == [t EXCEPT !.timesteps = Append(@, ts),
                          !.offsets = Append(@, Last(t.offsets))]
    IN  [held EXCEPT !.timesteps = Append(@, ts + 3),
                     !.offsets = Append(@, Last(held.offsets) - size)]

\* for entry in current_data[idx:]: the two samples, entry after entry
RECURSIVE ShiftAll(_, _, _, _, _)
ShiftAll(d, ptrs, k, ts, size) ==
    IF k > Len(ptrs) THEN d
    ELSE ShiftAll([d EXCEPT ![ptrs[k]] = ShiftEntry(@, ts, size)], ptrs, k + 1, ts, size)

\* an allocation that does not add the block's size
TotalAfterAllocKept(total, size) == total

TotalAfterAlloc(total, size) == total + size

\* a free that forgets to release the block's size
TotalAfterFreeKept(total, size) == total

TotalAfterFree(total, size) == total - size

\* the latest total instead of the running maximum
MaxSizeUpdateLatest(m, total, summ) == total + summ

MaxSizeUpdate(m, total, summ) == Max(m, total + summ)

ReplayAction ==
    /\ pc = "replay"
    /\ act_idx < Len(actions)
    /\ LET elem == actions[act_idx + 1]
           element == elements[elem + 1]
           size == element.size
           idx == FindLast(current, elem)
       IN  IF idx = 0
           THEN \* New allocation
                LET s1 == [SimState EXCEPT !.total_mem = TotalAfterAlloc(@, size)]
                    s2 == Advance(s1, 1)
                IN  /\ current' = Append(current, elem)
                    /\ data' = Append(data, NewEntry(elem, timestep, total_mem, size))
                    /\ current_data' = Append(current_data, Len(data'))
                    /\ SetSimState(s2)
                    /\ max_size' = MaxSizeUpdate(max_size, s2.total_mem, total_summarized_mem)
           ELSE \* Freeing memory
                LET removed == current_data[idx]
                    d1 == [data EXCEPT ![removed] = CloseRemoved(@, timestep)]
                    cur2 == RemoveAt(current, idx)
                    cd2 == RemoveAt(current_data, idx)
                    shifts == idx <= Len(cd2)
                    d2 == IF shifts THEN ShiftAll(d1, cd2, idx, timestep, size) ELSE d1
                    s1 == IF shifts THEN Advance(SimState, 3) ELSE SimState
                    s2 == [s1 EXCEPT !.total_mem = TotalAfterFree(@, size)]
                    s3 == Advance(s2, 1)
                IN  /\ current' = cur2
                    /\ current_data' = cd2
                    /\ data' = d2
                    /\ SetSimState(s3)
                    /\ max_size' = MaxSizeUpdate(max_size, s3.total_mem, total_summarized_mem)
    /\ act_idx' = act_idx + 1
    /\ pc' = SimPhase(Len(initially_allocated), init_idx, Len(actions), act_idx')
    /\ UNCHANGED <<inputVars, guiVars, report, trace, ev_idx, classVars, init_idx,
                   total_summarized_mem, allocations, dbVars, outVars, exit_code>>

FinalizeEntry(t, ts) ==
    [t EXCEPT !.timesteps = Append(@, ts), !.offsets = Append(@, Last(t.offsets))]

RECURSIVE FinalizeAll(_, _, _, _)
FinalizeAll(d, ptrs, k, ts) ==
    IF k > Len(ptrs) THEN d
    ELSE FinalizeAll([d EXCEPT ![ptrs[k]] = FinalizeEntry(@, ts)], ptrs, k + 1, ts)

\* allocations_over_time[:-1]
\* the simulator's list with its summary entry
AllocationsOfAll(d) == d

AllocationsOf(d) == SubSeq(d, 1, Len(d) - 1)

\* the caller of the simulator that runs next
AfterSimulation(v) == IF v = "zip_snap" THEN "returned" ELSE "make_db"

\* the closing loop, the summary entry, the return, and the caller's slicing
Finalize ==
    /\ pc = "finalize"
    /\ data' = Append(FinalizeAll(data, current_data, 1, timestep), summarized_mem)
    /\ allocations' = AllocationsOf(data')
    /\ pc' = AfterSimulation(variant)
    /\ UNCHANGED <<inputVars, guiVars, report, trace, ev_idx, classVars, init_idx, act_idx,
                   current, current_data, max_size, total_mem,
                   total_summarized_mem, timestep, max_at_time, summarized_mem,
                   dbVars, outVars, exit_code>>

----------------------------------------------------------------------------
(* format_callstack: text is a sequence of string tokens *)

FormatFrame(index, frame) ==
    <<"(", ToString(index), ") ", frame.filename, ":", ToString(frame.line), ":",
      frame.name>>

RECURSIVE JoinLines(_, _)
JoinLines(lines, k) ==
    IF k > Len(lines) THEN <<>>
    ELSE IF k = Len(lines) THEN lines[k]
    ELSE lines[k] \o <<"\n">> \o JoinLines(lines, k + 1)

\* frame indices counted from one
FormatCallstackOneBased(frames) ==
    JoinLines([i \in 1..Len(frames) |-> FormatFrame(i, frames[i])], 1)

FormatCallstack(frames) ==
    JoinLines([i \in 1..Len(frames) |-> FormatFrame(i - 1, frames[i])], 1)

----------------------------------------------------------------------------
(* make_db *)

\* 10000 in the source; scaled down so that a short trace spans several batches
INSERT_BATCH_SIZE == 2

InsertData(idx, alloc, elem) ==
    [idx |-> idx, size |-> alloc.size, start_time |-> alloc.timesteps[1],
     end_time |-> Last(alloc.timesteps), callstack |-> FormatCallstack(elem.frames)]

\* zip(range(start, end), allocs[start:end], elems[start:end]) stops at the
\* shortest of the three
\* one batch that takes every remaining source position
BatchEndWhole(start, allocs, elems) == Min(Len(allocs), Len(elems))

BatchEnd(start, allocs, elems) ==
    Min(Min(start + INSERT_BATCH_SIZE, Len(allocs)), Len(elems))

\* rows of the source positions start .. end - 1
BatchRows(start, end, allocs, elems) ==
    [k \in 1..(end - start) |-> InsertData(start + k - 1, allocs[start + k], elems[start + k])]

\* first source position in start .. end - 1 whose elem["frames"] raises
\* KeyError; end when there is none
FirstKeyError(start, end, elems) ==
    LET bad == {k \in start..(end - 1) : ~elems[k + 1].has_frames}
    IN  IF bad = {} THEN end ELSE CHOOSE k \in bad : \A j \in bad : k <= j

\* cli's finally clause: os.remove when db_file_path is set and the file exists
FinallyRemoves(path, exists) == path /\ exists

\* an exception leaves cli through the finally clause and ends the process
Raise(kind) ==
    /\ temp_exists' = IF FinallyRemoves(db_file_path, temp_exists) THEN FALSE ELSE temp_exists
    /\ pc' = "exit"
    /\ exit_code' = 1
    /\ report' = ErrorReport(kind)

MakeDbCreate ==
    /\ pc = "make_db"
    /\ \E ok \in BOOLEAN :
         IF ok
         THEN /\ temp_exists' = TRUE
              /\ conn' = "open"
              /\ pc' = IF 0 < Len(allocations) THEN "insert" ELSE "db_return"
              /\ UNCHANGED <<exit_code, report>>
         ELSE \* cursor.execute(DATABASE_SCHEMA) raises
              /\ conn' = "open"
              /\ temp_exists' = IF FinallyRemoves(db_file_path, TRUE) THEN FALSE ELSE TRUE
              /\ pc' = "exit"
              /\ exit_code' = 1
              /\ report' = ErrorReport("StorageError")
    /\ UNCHANGED <<inputVars, guiVars, trace, ev_idx, classVars, init_idx, act_idx, simVars,
                   allocations, batch_start, rows, committed, outVars>>

InsertBatch ==
    /\ pc = "insert"
    /\ batch_start < Len(allocations)
    /\ LET end == BatchEnd(batch_start, allocations, elements)
           bad == FirstKeyError(batch_start, end, elements)
       IN  IF bad < end
           THEN \* insert_data raises KeyError while executemany draws the rows
                /\ rows' = rows \o BatchRows(batch_start, bad, allocations, elements)
                /\ Raise("KeyError")
                /\ UNCHANGED <<batch_start, committed>>
           ELSE \E ok \in BOOLEAN :
                /\ rows' = rows \o BatchRows(batch_start, end, allocations, elements)
                /\ IF ok
                   THEN /\ committed' = Len(rows')
                        /\ batch_start' = batch_start + INSERT_BATCH_SIZE
                        /\ pc' = IF batch_start' < Len(allocations) THEN "insert" ELSE "db_return"
                        /\ UNCHANGED <<temp_exists, exit_code, report>>
                   ELSE \* conn.commit() raises
                        /\ Raise("StorageError")
                        /\ UNCHANGED <<batch_start, committed>>
    /\ UNCHANGED <<inputVars, guiVars, trace, ev_idx, classVars, init_idx, act_idx, simVars,
                   allocations, conn, outVars>>

MakeDbReturn ==
    /\ pc = "db_return"
    /\ conn' = "closed"
    /\ db_file_path' = TRUE
    /\ pc' = "zip_open"
    /\ UNCHANGED <<inputVars, guiVars, report, trace, ev_idx, classVars, init_idx, act_idx, simVars,
                   allocations, temp_exists, batch_start, rows, committed,
                   dest_exists, dest_entries, exit_code>>

----------------------------------------------------------------------------
(* cli: the archive at args.output *)

ALLOCATIONS_FILE_NAME == "allocations.json"

DATABASE_FILE_NAME == "elements.db"

\* zipfile.ZipFile(args.output, "w")
ZipOpen ==
    /\ pc = "zip_open"
    /\ \E ok \in BOOLEAN :
         IF ok
         THEN /\ dest_exists' = TRUE
              /\ dest_entries' = <<>>
              /\ pc' = "save_allocations"
              /\ UNCHANGED <<temp_exists, exit_code, report>>
         ELSE /\ Raise("IOError")
              /\ UNCHANGED <<dest_exists, dest_entries>>
    /\ UNCHANGED <<inputVars, guiVars, trace, ev_idx, classVars, init_idx, act_idx, simVars,
                   allocations, conn, batch_start, rows, committed, db_file_path>>

\* json.dumps(allocations) and zf.writestr(ALLOCATIONS_FILE_NAME, ...); when
\* either raises, the with block closes the archive it has opened
SaveAllocations ==
    /\ pc = "save_allocations"
    /\ \E ok \in BOOLEAN :
         IF ok
         THEN /\ dest_entries' = Append(dest_entries, ALLOCATIONS_FILE_NAME)
              /\ pc' = "save_database"
              /\ UNCHANGED <<temp_exists, exit_code, report>>
         ELSE /\ Raise("IOError")
              /\ UNCHANGED dest_entries
    /\ UNCHANGED <<inputVars, guiVars, trace, ev_idx, classVars, init_idx, act_idx, simVars,
                   allocations, conn, batch_start, rows, committed, db_file_path,
                   dest_exists>>

\* zf.write(db_file_path, arcname=DATABASE_FILE_NAME), the end of the with
\* block, the finally clause and the closing prints
SaveDatabase ==
    /\ pc = "save_database"
    /\ \E ok \in BOOLEAN :
         IF ok
         THEN /\ dest_entries' = Append(dest_entries, DATABASE_FILE_NAME)
              /\ temp_exists' = IF FinallyRemoves(db_file_path, temp_exists) THEN FALSE ELSE temp_exists
              /\ pc' = "exit"
              /\ exit_code' = 0
              /\ UNCHANGED report
         ELSE /\ Raise("IOError")
              /\ UNCHANGED dest_entries
    /\ UNCHANGED <<inputVars, guiVars, trace, ev_idx, classVars, init_idx, act_idx, simVars,
                   allocations, conn, batch_start, rows, committed, db_file_path,
                   dest_exists>>

----------------------------------------------------------------------------
(* qtmp.py: the orchestrator, the GUI process and the viewer process *)

pipelineVars == <<inputVars, pc, trace, ev_idx, classVars, init_idx, act_idx, simVars,
                  allocations, dbVars, outVars, exit_code, report>>

MaxQueue == 2

Messages == {"a", "b"}

\* a process that is reported alive although it has stopped
IsAliveAlways(p) == TRUE

\* Process.is_alive()
IsAlive(p) == p # "stopped"

\* Process.terminate(): the child ends on SIGTERM
Terminate(p) == IF IsAlive(p) THEN "stopped" ELSE p

\* run_viewer.message_callback: put only while the event is clear
ViewerMessage ==
    /\ viewer_process = "running"
    /\ ~terminate_event
    /\ Len(message_queue) < MaxQueue
    /\ \E m \in Messages : message_queue' = Append(message_queue, m)
    /\ UNCHANGED <<terminate_event, gui_process, viewer_process, message_panel,
                   main_pc, main_exit, interrupt, pipelineVars, replVars>>

\* SnapViewerApp.check_message_queue: drain the queue, the last message stays
GuiCheckMessageQueue ==
    /\ gui_process = "running"
    /\ message_queue # <<>>
    /\ message_panel' = message_queue[Len(message_queue)]
    /\ message_queue' = <<>>
    /\ UNCHANGED <<terminate_event, gui_process, viewer_process,
                   main_pc, main_exit, interrupt, pipelineVars, replVars>>

\* SnapViewerApp.check_termination_event: quit when the event is set
GuiCheckTerminationEvent ==
    /\ gui_process = "running"
    /\ terminate_event
    /\ gui_process' = "quitting"
    /\ UNCHANGED <<terminate_event, viewer_process, message_queue, message_panel,
                   main_pc, main_exit, interrupt, pipelineVars, replVars>>

\* SnapViewerApp.closeEvent with the reply Yes
GuiCloseConfirmed ==
    /\ gui_process = "running"
    /\ terminate_event' = TRUE
    /\ gui_process' = "quitting"
    /\ UNCHANGED <<viewer_process, message_queue, message_panel,
                   main_pc, main_exit, interrupt, pipelineVars, replVars>>

\* run_gui: app.exec() returns and the process ends
GuiStops ==
    /\ gui_process = "quitting"
    /\ gui_process' = "stopped"
    /\ UNCHANGED <<terminate_event, viewer_process, message_queue, message_panel,
                   main_pc, main_exit, interrupt, pipelineVars, replVars>>

\* the GUI process ends for any other reason, without touching the event
GuiDies ==
    /\ IsAlive(gui_process)
    /\ main_pc # "done"
    /\ gui_process' = "stopped"
    /\ UNCHANGED <<terminate_event, viewer_process, message_queue, message_panel,
                   main_pc, main_exit, interrupt, pipelineVars, replVars>>

\* run_viewer: snapviewer.viewer() returns or raises; the finally clause is next
ViewerReturns ==
    /\ viewer_process = "running"
    /\ viewer_process' = "signalling"
    /\ UNCHANGED <<terminate_event, gui_process, message_queue, message_panel,
                   main_pc, main_exit, interrupt, pipelineVars, replVars>>

\* run_viewer's finally clause: terminate_event.set(), then the process ends
ViewerSignals ==
    /\ viewer_process = "signalling"
    /\ terminate_event' = TRUE
    /\ viewer_process' = "stopped"
    /\ UNCHANGED <<gui_process, message_queue, message_panel,
                   main_pc, main_exit, interrupt, pipelineVars, replVars>>

\* the viewer process is killed and never reaches its finally clause
ViewerDies ==
    /\ IsAlive(viewer_process)
    /\ main_pc # "done"
    /\ viewer_process' = "stopped"
    /\ UNCHANGED <<terminate_event, gui_process, message_queue, message_panel,
                   main_pc, main_exit, interrupt, pipelineVars, replVars>>

\* main: the print after the children are started, and the entry of try
MainEntersLoop ==
    /\ main_pc = "started"
    /\ main_pc' = "poll"
    /\ UNCHANGED <<terminate_event, gui_process, viewer_process, message_queue,
                   message_panel, main_exit, interrupt, pipelineVars, replVars>>

\* main: one iteration of the polling loop that leaves it; an iteration
\* that sleeps changes nothing
MainPoll ==
    /\ main_pc = "poll"
    /\ \/ terminate_event /\ UNCHANGED terminate_event
       \/ ~terminate_event /\ ~IsAlive(gui_process) /\ terminate_event' = TRUE
       \/ ~terminate_event /\ IsAlive(gui_process) /\ ~IsAlive(viewer_process)
          /\ terminate_event' = TRUE
    /\ main_pc' = "finally_gui"
    /\ UNCHANGED <<gui_process, viewer_process, message_queue, message_panel,
                   main_exit, interrupt, pipelineVars, replVars>>

\* KeyboardInterrupt in the orchestrator. Inside the try block it is caught:
\* the event is set and the finally clause runs. Before the try block or
\* inside the finally clause nothing catches it: the interpreter exits with
\* a non-zero status (1 here), and multiprocessing's exit hook terminates
\* and joins the children, which are daemons.
MainInterrupt ==
    /\ main_pc # "done"
    /\ IF main_pc = "poll"
       THEN /\ interrupt' = "caught"
            /\ terminate_event' = TRUE
            /\ main_pc' = "finally_gui"
            /\ UNCHANGED <<gui_process, viewer_process, main_exit>>
       ELSE /\ interrupt' = "uncaught"
            /\ main_exit' = 1
            /\ main_pc' = "done"
            /\ gui_process' = Terminate(gui_process)
            /\ viewer_process' = Terminate(viewer_process)
            /\ UNCHANGED terminate_event
    /\ UNCHANGED <<message_queue, message_panel, pipelineVars, replVars>>

\* main's finally clause: if gui_process.is_alive(): gui_process.terminate()
MainTerminateGui ==
    /\ main_pc = "finally_gui"
    /\ gui_process' = Terminate(gui_process)
    /\ main_pc' = "finally_viewer"
    /\ UNCHANGED <<terminate_event, viewer_process, message_queue, message_panel,
                   main_exit, interrupt, pipelineVars, replVars>>

\* main's finally clause: if viewer_process.is_alive(): viewer_process.terminate()
MainTerminateViewer ==
    /\ main_pc = "finally_viewer"
    /\ viewer_process' = Terminate(viewer_process)
    /\ main_pc' = "exiting"
    /\ UNCHANGED <<terminate_event, gui_process, message_queue, message_panel,
                   main_exit, interrupt, pipelineVars, replVars>>

\* main's finally clause: sys.exit(0)
MainExit ==
    /\ main_pc = "exiting"
    /\ main_exit' = 0
    /\ main_pc' = "done"
    /\ gui_process' = Terminate(gui_process)
    /\ viewer_process' = Terminate(viewer_process)
    /\ UNCHANGED <<terminate_event, message_queue, message_panel, interrupt,
                   pipelineVars, replVars>>

----------------------------------------------------------------------------
(* Specifications *)

DeviceIds == {0, 1}

\* a run of converter v on one of the given snapshots and device indices
\* qtmp.py's main() as it enters its polling loop's surroundings: both
\* children started, the event clear, the queue empty
QtmpStarted ==
    /\ terminate_event = FALSE
    /\ gui_process = "running"
    /\ viewer_process = "running"
    /\ message_queue = <<>>
    /\ message_panel = ""
    /\ main_pc = "started"
    /\ main_exit = -1
    /\ interrupt = "none"

\* a REPL input widget after construction; v is "qt" (history_index = 0, as
\* in qt.py, qtmp.py, gui.py, tk.py) or "tui" (history_index = -1)
ReplCreated(v) ==
    /\ repl_variant = v
    /\ command_history = <<>>
    /\ history_index = IF v = "tui" THEN -1 ELSE 0
    /\ input_text = <<>>
    /\ reads_in_bounds = TRUE

\* the converter before get_trace
PipelineStart(v, dumps, ids) ==
    /\ variant = v
    /\ dump \in dumps
    /\ device_id \in ids
    /\ pc = "get_trace"
    /\ trace = <<>>
    /\ ev_idx = 0
    /\ elements = <<>>
    /\ initially_allocated = <<>>
    /\ actions = <<>>
    /\ addr_to_alloc = <<>>
    /\ init_idx = 0
    /\ act_idx = 0
    /\ current = <<>>
    /\ current_data = <<>>
    /\ data = <<>>
    /\ max_size = 0
    /\ total_mem = 0
    /\ total_summarized_mem = 0
    /\ timestep = 0
    /\ max_at_time = <<>>
    /\ summarized_mem = [elem |-> Summarized, timesteps |-> <<>>, offsets |-> <<0>>,
                         size |-> <<>>, color |-> 0]
    /\ allocations = <<>>
    /\ temp_exists = FALSE
    /\ conn = "none"
    /\ batch_start = 0
    /\ rows = <<>>
    /\ committed = 0
    /\ db_file_path = FALSE
    /\ dest_exists = FALSE
    /\ dest_entries = <<>>
    /\ exit_code = -1
    /\ report = NoReport

InitRunOn(v, dumps, ids) ==
    /\ QtmpStarted
    /\ ReplCreated("qt")
    /\ PipelineStart(v, dumps, ids)

\* snapshots with a single device
InitRun(v) == InitRunOn(v, {<<t>> : t \in Traces}, DeviceIds)

\* convert_snap.py
Init == InitRun("convert_snap")

Simulate ==
    \/ GetTrace
    \/ ClassifyEvent
    \/ InitialAlloc
    \/ ReplayAction
    \/ Finalize

Next ==
    \/ Simulate
    \/ MakeDbCreate
    \/ InsertBatch
    \/ MakeDbReturn
    \/ ZipOpen
    \/ SaveAllocations
    \/ SaveDatabase

Spec == Init /\ [][Next]_vars

\* zip_snap.py, up to trace2dict's return
InitZip == InitRun("zip_snap")

NextZip ==
    \/ GetTrace
    \/ ClassifyEvent
    \/ InitialAlloc
    \/ ReplayAction
    \/ Finalize

SpecZip == InitZip /\ [][NextZip]_vars

\* convert_snap.py on snapshots with several devices, some without events
MaxDevices == 2

DeviceTraceChoices ==
    {<<>>,
     <<Event("alloc", 1, 1, TRUE)>>,
     <<Event("free", 2, 2, TRUE), Event("alloc", 1, 1, TRUE), Event("free", 1, 1, TRUE)>>}

DeviceDumps == SeqsUpTo(DeviceTraceChoices, MaxDevices)

InitDevices == InitRunOn("convert_snap", DeviceDumps, 0..MaxDevices)

SpecDevices == InitDevices /\ [][Next]_vars

\* convert_snap.py with any integer given to --device, negative ones included
InitAnyDevice == InitRunOn("convert_snap", DeviceDumps, (0 - MaxDevices - 1)..MaxDevices)

SpecAnyDevice == InitAnyDevice /\ [][Next]_vars

\* convert_snap.py on the worked scenarios and on events that carry frames
MaxFrames == 2

Frames == [filename : {"a.c", "b.c"}, line : {1, 2}, name : {"f", "g"}]

FrameLists == SeqsUpTo(Frames, MaxFrames)

FrameTraces == {<<[Event("alloc", 1, 1, TRUE) EXCEPT !.frames = fs]>> : fs \in FrameLists}

ScenarioS1 == <<Event("alloc", 1, 10, TRUE)>>

ScenarioS2 == <<Event("alloc", 1, 10, TRUE), Event("free", 1, 10, TRUE)>>

ScenarioS3 == <<Event("free", 7, 5, TRUE)>>

ScenarioS4 ==
    <<Event("alloc", 1, 10, TRUE), Event("alloc", 2, 20, TRUE), Event("free", 1, 10, TRUE)>>

CaseTraces == {ScenarioS1, ScenarioS2, ScenarioS3, ScenarioS4} \cup FrameTraces

InitCases == InitRunOn("convert_snap", {<<t>> : t \in CaseTraces}, {0})

SpecCases == InitCases /\ [][Next]_vars

\* qtmp.py from the start of its two children to the orchestrator's exit
InitShutdown == InitRunOn("convert_snap", {<<(<<>>)>>}, {0})

MainStep ==
    \/ MainEntersLoop
    \/ MainPoll
    \/ MainTerminateGui
    \/ MainTerminateViewer
    \/ MainExit

NextShutdown ==
    \/ ViewerMessage
    \/ GuiCheckMessageQueue
    \/ GuiCheckTerminationEvent
    \/ GuiCloseConfirmed
    \/ GuiStops
    \/ GuiDies
    \/ ViewerReturns
    \/ ViewerSignals
    \/ ViewerDies
    \/ MainInterrupt
    \/ MainStep

\* the orchestrator is a running process: its next statement is executed
SpecShutdown == InitShutdown /\ [][NextShutdown]_vars /\ WF_vars(MainStep)

----------------------------------------------------------------------------
(* The REPL input line and its command history (qt.py, qtmp.py, gui.py,
   tk.py, tui.py). A text is a sequence of characters; the history holds the
   submitted commands; history_index is the Python (0-based) index. *)

MaxHistory == 3

ReplVariants == {"qt", "tui"}

\* what the user can have typed into the input line
InputTexts ==
    { <<>>, <<" ">>, <<"a">>, <<"b">>, <<" ", "a">>, <<"b", " ">>,
      <<"a", " ", "b">> }

RECURSIVE LStrip(_)
LStrip(t) == IF t # <<>> /\ Head(t) = " " THEN LStrip(Tail(t)) ELSE t

RECURSIVE RStrip(_)
RStrip(t) ==
    IF t # <<>> /\ Last(t) = " " THEN RStrip(SubSeq(t, 1, Len(t) - 1)) ELSE t

\* str.strip()
Strip(t) == RStrip(LStrip(t))

UpIndexUnclamped(i) == i - 1

\* max(0, self.history_index - 1)
UpIndex(i) == Max(0, i - 1)

\* command_history[i] does not raise IndexError
Indexable(h, i) == (0 - Len(h)) <= i /\ i < Len(h)

\* command_history[i] of Python, a negative i counting from the end
HistoryAt(h, i) == IF i >= 0 THEN h[i + 1] ELSE h[Len(h) + i + 1]

\* the statement widget.setText(command_history[i]): the index must name an
\* entry from the front; an IndexError leaves the input line as it is
ShowHistory(i) ==
    /\ reads_in_bounds' = (reads_in_bounds /\ 0 <= i /\ i < Len(command_history))
    /\ input_text' = IF Indexable(command_history, i)
                     THEN HistoryAt(command_history, i)
                     ELSE input_text

\* a key other than the arrows and Return changes the input line
TypeText ==
    /\ \E t \in InputTexts : input_text' = t
    /\ UNCHANGED <<repl_variant, command_history, history_index, reads_in_bounds>>
    /\ UNCHANGED <<pipelineVars, qtmpVars>>

\* on_submit / on_input_submitted; ok is whether execute_sql returned, which
\* only tui.py does not guard with try
OnSubmit ==
    LET command == Strip(input_text)
        history == IF command_history = <<>> \/ Last(command_history) # command
                   THEN Append(command_history, command)
                   ELSE command_history
    IN  /\ Len(history) <= MaxHistory
        /\ IF command # <<>>
           THEN /\ command_history' = history
                /\ history_index' = Len(history)
                /\ \E ok \in BOOLEAN :
                     input_text' = IF repl_variant = "tui" /\ ~ok
                                   THEN input_text
                                   ELSE <<>>
           ELSE /\ input_text' = <<>>
                /\ UNCHANGED <<command_history, history_index>>
        /\ UNCHANGED <<repl_variant, reads_in_bounds>>
        /\ UNCHANGED <<pipelineVars, qtmpVars>>

OnUpArrow ==
    /\ IF command_history # <<>>
       THEN /\ history_index' = UpIndex(history_index)
            /\ ShowHistory(history_index')
       ELSE UNCHANGED <<history_index, input_text, reads_in_bounds>>
    /\ UNCHANGED <<repl_variant, command_history>>
    /\ UNCHANGED <<pipelineVars, qtmpVars>>

OnDownArrow ==
    /\ IF command_history # <<>>
       THEN IF history_index + 1 >= Len(command_history)
            THEN /\ history_index' = Len(command_history)
                 /\ input_text' = <<>>
                 /\ UNCHANGED reads_in_bounds
            ELSE /\ history_index' = history_index + 1
                 /\ ShowHistory(history_index')
       ELSE UNCHANGED <<history_index, input_text, reads_in_bounds>>
    /\ UNCHANGED <<repl_variant, command_history>>
    /\ UNCHANGED <<pipelineVars, qtmpVars>>

InitRepl ==
    /\ QtmpStarted
    /\ \E v \in ReplVariants : ReplCreated(v)
    /\ PipelineStart("convert_snap", {<<(<<>>)>>}, {0})

NextRepl ==
    \/ TypeText
    \/ OnSubmit
    \/ OnUpArrow
    \/ OnDownArrow

SpecRepl == InitRepl /\ [][NextRepl]_vars

----------------------------------------------------------------------------
(* Properties *)

SimPhases == {"get_trace", "classify", "initial", "replay", "finalize"}

\* the simulator has returned to its caller
Simulated == pc \notin SimPhases

\* make_db has returned the path of the database it wrote
DbWritten == db_file_path

\* the trajectories of data other than the summary track
Regular == {k \in DOMAIN data : data[k].elem # Summarized}

IsNonDecreasing(s) == \A i \in 1..(Len(s) - 1) : s[i] <= s[i + 1]

RECURSIVE SumSizes(_, _)
SumSizes(cur, k) ==
    IF k > Len(cur) THEN 0 ELSE elements[cur[k] + 1].size + SumSizes(cur, k + 1)

\* C1: every row written to allocs has a trajectory with elem = idx that
\* agrees with the row on size, first timestep and last timestep.
RowHasItsTrajectory ==
    \A i \in DOMAIN rows :
      \E k \in DOMAIN allocations :
        /\ allocations[k].elem = rows[i].idx
        /\ allocations[k].size = rows[i].size
        /\ allocations[k].timesteps[1] = rows[i].start_time
        /\ Last(allocations[k].timesteps) = rows[i].end_time

\* C2: the trajectory at position i of the list handed to the writer is the
\* trajectory of element i, so row i takes its size from the element whose
\* frames give its callstack.
TrajectoryPositionIsElement ==
    /\ \A i \in DOMAIN allocations : allocations[i].elem = i - 1
    /\ \A i \in DOMAIN rows : rows[i].size = elements[rows[i].idx + 1].size

\* C3: once the simulator has returned there is exactly one trajectory per
\* element, and once make_db has returned the rows inserted (all committed)
\* are as many as the trajectories and as the elements.
OneRowOneTrajectoryPerElement ==
    /\ Simulated =>
         /\ Len(allocations) = Len(elements)
         /\ \A e \in 0..(Len(elements) - 1) :
              Cardinality({k \in DOMAIN allocations : allocations[k].elem = e}) = 1
    /\ DbWritten =>
         /\ Len(rows) = Len(allocations)
         /\ Len(rows) = Len(elements)
         /\ committed = Len(rows)

\* a run that wrote three rows, one of them for an orphan free
ThreeRowsWritten ==
    /\ exit_code = 0
    /\ Len(rows) = 3
    /\ Len(initially_allocated) >= 1

\* C4: a run that ends in failure leaves nothing at the destination, a run
\* that succeeds leaves both artifacts there.
NoPartialOutput ==
    pc = "exit" =>
      IF exit_code = 0
      THEN dest_exists /\ dest_entries = <<ALLOCATIONS_FILE_NAME, DATABASE_FILE_NAME>>
      ELSE ~dest_exists

\* C5: no temporary database file survives a run, whether the run failed
\* (inside make_db included) or succeeded.
NoTempFileSurvives == pc = "exit" => ~temp_exists

\* C6: timesteps and offsets of every regular trajectory have equal length
\* in every state of the simulator.
EqualLengths ==
    \A k \in Regular : Len(data[k].timesteps) = Len(data[k].offsets)

\* a trajectory that was shifted by a free below it and then closed
ShiftedAndClosed ==
    /\ Simulated
    /\ \E k \in Regular : Len(data[k].timesteps) >= 4

\* C7: timesteps of every regular trajectory is non-decreasing; the
\* (timestep + 3) sample of a shift is not above any later sample.
TimestepsNonDecreasing ==
    \A k \in Regular : IsNonDecreasing(data[k].timesteps)

\* a shift sample at timestep + 3 followed by a later sample
SampleAfterShift ==
    \E k \in Regular :
      LET ts == data[k].timesteps
      IN  /\ Len(ts) = 4
          /\ ts[3] = ts[2] + 3
          /\ ts[4] > ts[3]

\* C8: with non-negative event sizes the first and the last offset of every
\* regular trajectory are >= 0, shifted trajectories included.
EndOffsetsNonNegative ==
    \A k \in Regular :
      /\ data[k].offsets[1] >= 0
      /\ Last(data[k].offsets) >= 0

\* a trajectory that started above a block and was shifted down to offset 0
ShiftedDownToZero ==
    \E k \in Regular :
      /\ Len(data[k].offsets) >= 3
      /\ data[k].offsets[1] > 0
      /\ Last(data[k].offsets) = 0

\* C9: total_mem is the sum of the sizes of the elements in the live set,
\* after the initial allocations and after every replayed action.
TotalMemIsLiveSum == total_mem = SumSizes(current, 1)

\* after a free, with one block still live and another one closed
LiveAfterAFree ==
    /\ act_idx >= 2
    /\ Len(current) >= 1
    /\ Len(data) > Len(current)
    /\ Len(initially_allocated) >= 1
    /\ total_mem > 0

\* number of occurrences of element e among the first j actions
Visits(e, j) == Cardinality({i \in 1..j : actions[i] = e})

\* without orphan frees, the elements live after j actions: visited once
LiveAfter(j) == {e \in 0..(Len(elements) - 1) : Visits(e, j) = 1}

RECURSIVE SumOver(_)
SumOver(S) ==
    IF S = {} THEN 0
    ELSE LET e == CHOOSE x \in S : TRUE
         IN  elements[e + 1].size + SumOver(S \ {e})

\* the largest live sum among the initial state and the states after each of
\* the first k actions
RECURSIVE PeakLive(_)
PeakLive(k) ==
    IF k = 0 THEN SumOver(LiveAfter(0))
    ELSE Max(PeakLive(k - 1), SumOver(LiveAfter(k)))

\* C10: for a trace without orphan frees, max_size is the maximum, over the
\* initial state and the state after each action, of the live set's size sum.
MaxSizeIsPeak ==
    (pc \in {"replay", "finalize", "returned"} /\ Len(initially_allocated) = 0) =>
      /\ {current[i] : i \in DOMAIN current} = LiveAfter(act_idx)
      /\ Cardinality(LiveAfter(act_idx)) = Len(current)
      /\ max_size = PeakLive(act_idx)

\* the peak was reached before the end: two allocations, then a free
PeakAboveFinalTotal ==
    /\ pc = "returned"
    /\ Len(initially_allocated) = 0
    /\ max_size = 3
    /\ total_mem = 1

\* no step of classification, simulation or artifact writing has been taken
NothingRun ==
    /\ ev_idx = 0 /\ init_idx = 0 /\ act_idx = 0
    /\ elements = <<>> /\ actions = <<>> /\ data = <<>> /\ allocations = <<>>
    /\ rows = <<>> /\ conn = "none"
    /\ ~temp_exists /\ ~dest_exists /\ ~db_file_path

\* get_trace ended the run with exit status 1 and the given message
Rejected(kind) ==
    /\ pc = "exit"
    /\ exit_code = 1
    /\ report.kind = kind
    /\ NothingRun

\* indices of the devices whose traces have events
NonEmptyDevices == {j \in 0..(Len(dump) - 1) : Len(dump[j + 1]) > 0}

\* C12: a device index >= the number of device traces ends the run with exit
\* status 1, checked before emptiness; an empty selected trace ends it with
\* exit status 1 and a message listing exactly the devices that have events;
\* nothing is classified, simulated or written in either case.  Any other
\* index gets device_traces[device_id] unchanged.
GetTraceContract ==
    (pc # "get_trace" /\ device_id >= 0) =>
      IF device_id >= Len(dump)
      THEN Rejected("out_of_range")
      ELSE IF Len(dump[device_id + 1]) = 0
      THEN /\ Rejected("empty_device")
           /\ {report.devices[i] : i \in DOMAIN report.devices} = NonEmptyDevices
           /\ Len(report.devices) = Cardinality(NonEmptyDevices)
      ELSE /\ trace = dump[device_id + 1]
           /\ report.kind \notin {"out_of_range", "empty_device", "IndexError"}

\* device 0 of two is empty and the message cites device 1
EmptyDeviceCitesOther ==
    /\ pc = "exit"
    /\ Len(dump) = 2
    /\ device_id = 0
    /\ report.kind = "empty_device"
    /\ report.devices = <<1>>

\* text is n lines of eight tokens, "(i) filename:line:name" of frame i in
\* input order, with one newline token between consecutive lines and none
\* at the end
CallstackShape(text, frames) ==
    LET n == Len(frames) IN
    /\ Len(text) = IF n = 0 THEN 0 ELSE 9 * n - 1
    /\ \A i \in 0..(n - 1) :
         SubSeq(text, 9 * i + 1, 9 * i + 8) =
           <<"(", ToString(i), ") ", frames[i + 1].filename, ":",
             ToString(frames[i + 1].line), ":", frames[i + 1].name>>
    /\ \A i \in 0..(n - 2) : text[9 * i + 9] = "\n"

\* C13: format_callstack gives, for n frames, n lines "(i) filename:line:name"
\* in input order joined by single newlines with no trailing newline, and the
\* empty string for no frames.
CallstackIsNumberedLines ==
    \A i \in DOMAIN rows :
      CallstackShape(rows[i].callstack, elements[rows[i].idx + 1].frames)

\* the two frames of scenario S5 rendered as "(0) a.c:1:f\n(1) b.c:2:g"
TwoFrameCallstack ==
    /\ Len(rows) = 1
    /\ elements[1].frames = <<[filename |-> "a.c", line |-> 1, name |-> "f"],
                              [filename |-> "b.c", line |-> 2, name |-> "g"]>>
    /\ rows[1].callstack = <<"(", "0", ") ", "a.c", ":", "1", ":", "f", "\n",
                             "(", "1", ") ", "b.c", ":", "2", ":", "g">>

Trajectory(elem, ts, offs, size) ==
    [elem |-> elem, timesteps |-> ts, offsets |-> offs, size |-> size, color |-> elem]

Row(idx, size, start, end) ==
    [idx |-> idx, size |-> size, start_time |-> start, end_time |-> end,
     callstack |-> <<>>]

\* C14 as stated: a single alloc of size 10 gives one trajectory with
\* timesteps [0,0], offsets [0,0] and the row (0, 10, 0, 0, "").
ScenarioS1AsStated ==
    trace = ScenarioS1 =>
      /\ Simulated => allocations = <<Trajectory(0, <<0, 0>>, <<0, 0>>, 10)>>
      /\ DbWritten => rows = <<Row(0, 10, 0, 0)>>

\* C14 amended: a single alloc of size 10 gives one trajectory with
\* timesteps [0,1] (the alloc's advance(1) precedes finalization), offsets
\* [0,0], size 10, color 0, and the row (0, 10, 0, 1, "").
ScenarioS1Holds ==
    trace = ScenarioS1 =>
      /\ Simulated => allocations = <<Trajectory(0, <<0, 1>>, <<0, 0>>, 10)>>
      /\ DbWritten => rows = <<Row(0, 10, 0, 1)>>

ScenarioS1Done == trace = ScenarioS1 /\ exit_code = 0

\* C15: alloc then matched free gives one trajectory with timesteps [0,1],
\* offsets [0,0], size 10 and the row (0,10,0,1,""); the closing sample is
\* taken at timestep 1, before the free's advance, and timestep is 2 after.
ScenarioS2Holds ==
    trace = ScenarioS2 =>
      /\ (pc = "replay" /\ act_idx = 1) => timestep = 1
      /\ act_idx = 2 =>
           /\ timestep = 2
           /\ data[1] = Trajectory(0, <<0, 1>>, <<0, 0>>, 10)
      /\ Simulated => allocations = <<Trajectory(0, <<0, 1>>, <<0, 0>>, 10)>>
      /\ DbWritten => rows = <<Row(0, 10, 0, 1)>>

ScenarioS2Done == trace = ScenarioS2 /\ exit_code = 0

\* C16 as stated: a single orphan free gives one initially-allocated
\* element, placed at offset 0 at timestep 0 without an advance; the sample
\* (0, 0) is appended by finalization; the row is (0,5,0,0,"").
ScenarioS3AsStated ==
    trace = ScenarioS3 =>
      /\ pc \notin {"get_trace", "classify"} => initially_allocated = <<0>>
      /\ pc = "replay" =>
           (data = <<Trajectory(0, <<0>>, <<0>>, 5)>> /\ timestep = 0)
      /\ pc = "finalize" =>
           (data = <<Trajectory(0, <<0>>, <<0>>, 5)>> /\ timestep = 0 /\ current = <<0>>)
      /\ Simulated => allocations = <<Trajectory(0, <<0, 0>>, <<0, 0>>, 5)>>
      /\ DbWritten => rows = <<Row(0, 5, 0, 0)>>

\* C16 amended: a single orphan free gives one initially-allocated element,
\* placed at offset 0 at timestep 0 without an advance; the replay of its
\* free appends the closing sample (0, 0) and advances timestep to 1, and
\* finalization finds no live block; the row is (0,5,0,0,"").
ScenarioS3Holds ==
    trace = ScenarioS3 =>
      /\ pc \notin {"get_trace", "classify"} => initially_allocated = <<0>>
      /\ pc = "replay" =>
           (data = <<Trajectory(0, <<0>>, <<0>>, 5)>> /\ timestep = 0)
      /\ pc = "finalize" =>
           (data = <<Trajectory(0, <<0, 0>>, <<0, 0>>, 5)>> /\ timestep = 1 /\ current = <<>>)
      /\ Simulated => allocations = <<Trajectory(0, <<0, 0>>, <<0, 0>>, 5)>>
      /\ DbWritten => rows = <<Row(0, 5, 0, 0)>>

ScenarioS3Done == trace = ScenarioS3 /\ exit_code = 0

\* the states of scenario S4 up to the free, which both readings share
ScenarioS4Allocs ==
    (pc = "replay" /\ act_idx = 2) =>
      /\ data = <<Trajectory(0, <<0>>, <<0>>, 10), Trajectory(1, <<1>>, <<10>>, 20)>>
      /\ current = <<0, 1>>
      /\ timestep = 2

\* C17 as stated: the free of the bottom block closes trajectory 0 with
\* (2, 0), gives trajectory 1 the samples (2, 10) and (5, -10), leaves
\* timestep = 6, and finalization appends (6, -10) to trajectory 1.
ScenarioS4AsStated ==
    trace = ScenarioS4 =>
      /\ ScenarioS4Allocs
      /\ (pc = "finalize" /\ act_idx = 3) =>
           /\ data = <<Trajectory(0, <<0, 2>>, <<0, 0>>, 10),
                       Trajectory(1, <<1, 2, 5>>, <<10, 10, -10>>, 20)>>
           /\ timestep = 6
      /\ Simulated =>
           allocations = <<Trajectory(0, <<0, 2>>, <<0, 0>>, 10),
                           Trajectory(1, <<1, 2, 5, 6>>, <<10, 10, -10, -10>>, 20)>>

\* C17 amended: the free of the bottom block closes trajectory 0 with
\* (2, 0), gives trajectory 1 the samples (2, 10) and (5, 0) (the slide is by
\* the freed block's size, 10), leaves timestep = 6, and finalization appends
\* (6, 0) to trajectory 1.
ScenarioS4Holds ==
    trace = ScenarioS4 =>
      /\ ScenarioS4Allocs
      /\ (pc = "finalize" /\ act_idx = 3) =>
           /\ data = <<Trajectory(0, <<0, 2>>, <<0, 0>>, 10),
                       Trajectory(1, <<1, 2, 5>>, <<10, 10, 0>>, 20)>>
           /\ timestep = 6
      /\ Simulated =>
           allocations = <<Trajectory(0, <<0, 2>>, <<0, 0>>, 10),
                           Trajectory(1, <<1, 2, 5, 6>>, <<10, 10, 0, 0>>, 20)>>

ScenarioS4Done == trace = ScenarioS4 /\ exit_code = 0

\* C18: an element whose event has no frames key does not make the
\* conversion fail: no KeyError ends the run, and once make_db has returned
\* every element has its row.
FramelessElementGetsRow ==
    /\ report.kind # "KeyError"
    /\ DbWritten =>
         \A e \in 0..(Len(elements) - 1) : \E i \in DOMAIN rows : rows[i].idx = e

\* positions of data whose block is live
LivePositions == {current_data[i] : i \in DOMAIN current_data}

\* one step of the simulator seen from the trajectories' first and last
\* timesteps; timestep is the counter's value when the step begins
FirstAndLastTimestepsStep ==
    /\ \A k \in Regular :
         /\ k \in DOMAIN data'
         /\ data'[k].timesteps[1] = data[k].timesteps[1]
         /\ k \notin LivePositions => data'[k] = data[k]
    /\ \A k \in DOMAIN data' \ DOMAIN data :
         data'[k].elem # Summarized =>
           /\ data'[k].timesteps = <<timestep>>
           /\ pc = "initial" => timestep = 0
    /\ pc = "replay" =>
         \A k \in LivePositions :
           (\A i \in DOMAIN current_data' : current_data'[i] # k) =>
             Last(data'[k].timesteps) = timestep
    /\ pc = "finalize" =>
         /\ timestep' = timestep
         /\ \A k \in LivePositions : Last(data'[k].timesteps) = timestep

\* C19: the first timestep of an element's trajectory is the counter's value
\* when the element became live (0 for initially-allocated elements), and
\* the last is the counter's value when its free action was processed, or
\* the final counter value if it was still live at the end of the trace.
FirstAndLastTimesteps == [][FirstAndLastTimestepsStep]_vars

\* a block allocated after the trace began, freed, and one that stayed live
BornLateAndFreed ==
    /\ Simulated
    /\ \E k \in Regular :
         /\ data[k].timesteps[1] > 0
         /\ k \notin LivePositions
         /\ Last(data[k].timesteps) > data[k].timesteps[1]
    /\ \E k \in Regular : k \in LivePositions /\ Last(data[k].timesteps) = timestep

\* one iteration of the classifier loop on an alloc or an unknown event
ClassifierAllocUnknownStep ==
    (pc = "classify" /\ ev_idx' = ev_idx + 1) =>
      LET event == trace[ev_idx + 1]
          i == Len(elements)
      IN  /\ event.action = "alloc" =>
               /\ elements' = Append(elements, event)
               /\ addr_to_alloc' = MapPut(addr_to_alloc, event.addr, i)
               /\ actions' = Append(actions, i)
               /\ initially_allocated' = initially_allocated
          /\ event.action \notin {"alloc", "free", "free_completed"} =>
               /\ UNCHANGED classVars
               /\ report' = report
               /\ exit_code' = exit_code
               /\ pc' # "exit"

\* C20: each alloc event appends exactly one element whose index is the
\* number of elements created before it, maps its address to that index and
\* appends the index to actions; an event whose action is none of alloc,
\* free, free_completed leaves elements, actions, initially_allocated and the
\* address map unchanged and never raises.
ClassifierAllocAndUnknown == [][ClassifierAllocUnknownStep]_vars

\* an alloc and then a segment_alloc have been classified
AllocThenUnknownClassified ==
    /\ ev_idx = 2
    /\ trace[1].action = "alloc"
    /\ trace[2].action = "segment_alloc"
    /\ elements = <<trace[1]>>
    /\ actions = <<0>>

\* the range of a sequence
Range(s) == {s[i] : i \in DOMAIN s}

\* one iteration of the classifier loop on a free whose address is mapped
MatchedFreeStep ==
    (pc = "classify" /\ ev_idx' = ev_idx + 1) =>
      LET event == trace[ev_idx + 1] IN
      (event.action \in {"free", "free_completed"} /\ event.addr \in DOMAIN addr_to_alloc) =>
        /\ actions' = Append(actions, addr_to_alloc[event.addr])
        /\ elements' = elements
        /\ initially_allocated' = initially_allocated
        /\ DOMAIN addr_to_alloc' = DOMAIN addr_to_alloc \ {event.addr}
        /\ \A a \in DOMAIN addr_to_alloc' : addr_to_alloc'[a] = addr_to_alloc[a]

\* an orphan occurs in actions once; any other element once or twice
OccurrencesInActions ==
    \A e \in 0..(Len(elements) - 1) :
      IF e \in Range(initially_allocated)
      THEN Visits(e, Len(actions)) = 1
      ELSE Visits(e, Len(actions)) \in {1, 2}

\* C21: a free or free_completed event whose address is in the address map
\* appends the mapped element index to actions, creates no element and
\* removes the address from the map; so every alloc element occurs in
\* actions at most twice and every orphan element exactly once.
MatchedFrees == [][MatchedFreeStep]_vars /\ []OccurrencesInActions

\* an alloc, its matched free, and a second free of the same address
FreedThenFreedAgain ==
    /\ pc = "initial"
    /\ Len(trace) = 3
    /\ actions = <<0, 0, 1>>
    /\ initially_allocated = <<1>>
    /\ addr_to_alloc = <<>>

\* one iteration of the classifier loop on a free whose address is not mapped
OrphanFreeStep ==
    (pc = "classify" /\ ev_idx' = ev_idx + 1) =>
      LET event == trace[ev_idx + 1]
          i == Len(elements)
      IN  (event.action \in {"free", "free_completed"}
           /\ event.addr \notin DOMAIN addr_to_alloc) =>
            /\ elements' = Append(elements, event)
            /\ initially_allocated' = Append(initially_allocated, i)
            /\ actions' = Append(actions, i)
            /\ addr_to_alloc' = addr_to_alloc

\* the position of data that holds element e's trajectory
PositionsOf(e) == {k \in Regular : data[k].elem = e}

\* once the initial allocations are done, an orphan has one trajectory, it
\* starts at timestep 0, and the orphan is live exactly while its action
\* has not been replayed
OrphansLiveFromZero ==
    pc \in {"replay", "finalize"} =>
      \A e \in Range(initially_allocated) :
        /\ Cardinality(PositionsOf(e)) = 1
        /\ \A k \in PositionsOf(e) : data[k].timesteps[1] = 0
        /\ e \in Range(current) <=> (\E j \in (act_idx + 1)..Len(actions) : actions[j] = e)

\* C22: a free or free_completed event whose address is not in the address
\* map at that moment creates a new element, records it in
\* initially_allocated and appends it to actions; the simulator treats it as
\* live from timestep 0 until that action.
OrphanFrees == [][OrphanFreeStep]_vars /\ []OrphansLiveFromZero

\* alloc, free, free_completed of one address: the free_completed is an
\* orphan whose block was live until the last action
CompletedAfterFreeIsOrphan ==
    /\ pc = "finalize"
    /\ Len(trace) = 3
    /\ trace[1].action = "alloc"
    /\ trace[2].action = "free"
    /\ trace[3].action = "free_completed"
    /\ trace[1].addr = trace[2].addr /\ trace[2].addr = trace[3].addr
    /\ initially_allocated = <<1>>
    /\ current = <<>>

\* no free or free_completed of event i's address strictly between i and j
NoFreeBetween(i, j) ==
    \A k \in (i + 1)..(j - 1) :
      ~(trace[k].action \in {"free", "free_completed"} /\ trace[k].addr = trace[i].addr)

\* event i is a free that has an alloc of its address pending before it
HasPendingAlloc(i) ==
    \E k \in 1..(i - 1) :
      trace[k].action = "alloc" /\ trace[k].addr = trace[i].addr /\ NoFreeBetween(k, i)

\* event i makes an element: an alloc, or a free with no pending alloc
CreatesElement(i) ==
    \/ trace[i].action = "alloc"
    \/ trace[i].action \in {"free", "free_completed"} /\ ~HasPendingAlloc(i)

\* the index of the element made by event i
ElementOf(i) == Cardinality({k \in 1..(i - 1) : CreatesElement(k)})

\* elements of allocs among the first n events that were followed, within
\* those n events, by an alloc of the same address with no free between
Displaced(n) ==
    {ElementOf(i) : i \in {i \in 1..n :
        /\ trace[i].action = "alloc"
        /\ \E j \in (i + 1)..n :
             /\ trace[j].action = "alloc"
             /\ trace[j].addr = trace[i].addr
             /\ NoFreeBetween(i, j)}}

\* the events the classifier has consumed
Classified == IF pc = "classify" THEN ev_idx ELSE Len(trace)

\* C23: when two allocs of one address occur with no free of that address
\* between them, the second replaces the first in the address map, no later
\* free is matched to the first element, it stays in the live set through
\* the whole replay, and its trajectory's last timestep is the final
\* timestep written at finalization.
DisplacedAllocStaysLive ==
    \A e \in Displaced(Classified) :
      /\ \A a \in DOMAIN addr_to_alloc : addr_to_alloc[a] # e
      /\ Visits(e, Len(actions)) = 1
      /\ (pc \in {"replay", "finalize"} /\ \E j \in 1..act_idx : actions[j] = e) =>
           e \in Range(current)
      /\ Simulated =>
           /\ e \in Range(current)
           /\ PositionsOf(e) # {}
           /\ \A k \in PositionsOf(e) : Last(data[k].timesteps) = timestep

\* alloc, alloc, free of one address: the free closed the second block and
\* the first was closed by finalization
FirstOfTwoAllocsClosedAtEnd ==
    /\ Simulated
    /\ Len(trace) = 3
    /\ Displaced(3) = {0}
    /\ trace[3].action = "free"
    /\ trace[3].addr = trace[1].addr
    /\ actions = <<0, 1, 1>>
    /\ current = <<0>>
    /\ Last(data[1].timesteps) = timestep

\* the initial-allocations loop has ended and no action has been replayed
InitialPhaseDone == pc \in {"replay", "finalize"} /\ act_idx = 0

\* C24: the initially-allocated elements o1..ok are made live in reverse
\* insertion order before any action is replayed: afterwards the live set is
\* [ok, ..., o1], the trajectory of oj is the single sample
\* (0, sum of the sizes of o(j+1)..ok), total_mem is the sum of all orphan
\* sizes, timestep is 0 and the summary track has no sample.
InitialAllocationsReversed ==
    /\ pc = "initial" =>
         (act_idx = 0 /\ timestep = 0 /\ summarized_mem.timesteps = <<>>)
    /\ InitialPhaseDone =>
         LET o == initially_allocated
             k == Len(o)
         IN  /\ current = [p \in 1..k |-> o[k + 1 - p]]
             /\ Len(data) = k
             /\ \A j \in 1..k :
                  {data[p] : p \in PositionsOf(o[j])} =
                    {[elem |-> o[j], timesteps |-> <<0>>,
                      offsets |-> <<SumSizes(o, j + 1)>>,
                      size |-> elements[o[j] + 1].size, color |-> o[j]]}
             /\ total_mem = SumSizes(o, 1)
             /\ timestep = 0
             /\ summarized_mem.timesteps = <<>>
             /\ summarized_mem.offsets = <<0>>
             /\ summarized_mem.size = <<>>

\* two orphans of different sizes: the one recorded first sits on top
TwoOrphansStacked ==
    /\ InitialPhaseDone
    /\ initially_allocated = <<0, 1>>
    /\ elements[1].size = 1
    /\ elements[2].size = 2
    /\ current = <<1, 0>>
    /\ total_mem = 3

\* the element of the action that a replay step consumes
ReplayedElem == actions[act_idx + 1]

\* one replay step on an element that is not in the live set
ReplayMissStep ==
    (pc = "replay" /\ act_idx' = act_idx + 1 /\ ReplayedElem \notin Range(current)) =>
      LET size == elements[ReplayedElem + 1].size IN
      /\ current' = Append(current, ReplayedElem)
      /\ data' = Append(data, [elem |-> ReplayedElem, timesteps |-> <<timestep>>,
                               offsets |-> <<total_mem>>, size |-> size,
                               color |-> ReplayedElem])
      /\ current_data' = Append(current_data, Len(data) + 1)
      /\ total_mem' = total_mem + size
      /\ timestep' = timestep + 1

\* C25: when an action's element is not in the live set, it is appended at
\* the tail of the live set, a trajectory is created with
\* timesteps=[timestep], offsets=[total_mem] (values before the action), the
\* element's size and color = elem = its index; total_mem grows by size and
\* timestep by exactly 1; no existing trajectory receives a sample.
ReplayMiss == [][ReplayMissStep]_vars

\* a second block allocated on top of a first one
SecondBlockOnTop ==
    /\ pc \in {"replay", "finalize"}
    /\ act_idx = 2
    /\ current = <<0, 1>>
    /\ Len(data) = 2
    /\ data[2].timesteps = <<1>>
    /\ data[2].offsets = <<data[1].size>>
    /\ total_mem = data[1].size + data[2].size
    /\ timestep = 2

\* the last position of the live set that holds the replayed element
HitIndex ==
    CHOOSE i \in DOMAIN current :
      current[i] = ReplayedElem /\ \A j \in (i + 1)..Len(current) : current[j] # ReplayedElem

\* one replay step on an element that is in the live set
ReplayHitStep ==
    (pc = "replay" /\ act_idx' = act_idx + 1 /\ ReplayedElem \in Range(current)) =>
      LET idx == HitIndex
          size == elements[ReplayedElem + 1].size
          freed == current_data[idx]
      IN  /\ data'[freed] =
               [data[freed] EXCEPT !.timesteps = Append(@, timestep),
                                   !.offsets = Append(@, Last(data[freed].offsets))]
          /\ current' = SubSeq(current, 1, idx - 1) \o SubSeq(current, idx + 1, Len(current))
          /\ current_data' =
               SubSeq(current_data, 1, idx - 1) \o SubSeq(current_data, idx + 1, Len(current_data))
          /\ \A i \in (idx + 1)..Len(current) :
               LET t == data[current_data[i]] IN
               data'[current_data[i]] =
                 [t EXCEPT !.timesteps = @ \o <<timestep, timestep + 3>>,
                           !.offsets = @ \o <<Last(t.offsets), Last(t.offsets) - size>>]
          /\ \A i \in 1..(idx - 1) : data'[current_data[i]] = data[current_data[i]]
          /\ Len(data') = Len(data)
          /\ total_mem' = total_mem - size
          /\ timestep' = timestep + (IF idx < Len(current) THEN 4 ELSE 1)

\* C26: a hit at position idx gives the freed trajectory exactly one closing
\* sample (timestep, previous last offset), removes the entry from both live
\* sequences, gives every entry above it the two samples
\* (timestep, last_offset) and (timestep + 3, last_offset - size), leaves the
\* entries below alone, lowers total_mem by size, and advances the counter by
\* 4 when an entry was above the freed one and by 1 otherwise.
ReplayHit == [][ReplayHitStep]_vars

\* the middle one of three live blocks freed: the block below it kept its one
\* sample, the block above it was shifted
MiddleBlockFreed ==
    /\ Len(data) = 3
    /\ current = <<data[1].elem, data[3].elem>>
    /\ Len(data[1].timesteps) = 1
    /\ Len(data[2].timesteps) = 2
    /\ Len(data[3].timesteps) = 3
    /\ data[3].offsets[3] = data[3].offsets[1] - data[2].size
    /\ timestep = Last(data[2].timesteps) + 4

\* the closing loop, the summary append and the caller's slicing, as one step
FinalizationStep ==
    pc = "finalize" =>
      /\ Len(data') = Len(data) + 1
      /\ Last(data') = summarized_mem
      /\ Last(data').elem = Summarized
      /\ \A k \in DOMAIN data :
           IF k \in LivePositions
           THEN data'[k] = [data[k] EXCEPT !.timesteps = Append(@, timestep),
                                           !.offsets = Append(@, Last(data[k].offsets))]
           ELSE data'[k] = data[k]
      /\ allocations' = SubSeq(data', 1, Len(data))
      /\ \A i \in DOMAIN allocations' : allocations'[i].elem # Summarized

\* what the simulator has returned: the summary last, the regular
\* trajectories before it, and none of the returned ones is the summary
ReturnedWithoutSummary ==
    (Simulated /\ report.kind \notin {"out_of_range", "IndexError", "empty_device"}) =>
      /\ Last(data).elem = Summarized
      /\ Regular = 1..(Len(data) - 1)
      /\ allocations = [k \in 1..(Len(data) - 1) |-> data[k]]
      /\ \A i \in DOMAIN allocations : allocations[i].elem # Summarized

\* C27: after the last action every trajectory still in the live set
\* receives exactly one terminal sample (final timestep, its last offset) and
\* no other trajectory changes; the summary entry is appended as the last
\* item of data, after the regular trajectories in creation order;
\* trace_to_allocation_data returns the list without that last item, so no
\* returned trajectory has elem == "summarized".
FinalizationAndOutput == [][FinalizationStep]_vars /\ []ReturnedWithoutSummary

\* a closed block and a live one handed to the writer
ClosedAndLiveReturned ==
    /\ pc = "make_db"
    /\ Len(allocations) = 2
    /\ Len(current) = 1
    /\ current_data = <<2>>
    /\ Len(allocations[1].timesteps) = 2
    /\ Last(allocations[2].timesteps) = timestep
    /\ Last(allocations[1].timesteps) < timestep

\* the summary track with the samples of the given (timestep, total_mem) pairs
WithSamples(sm, samples) ==
    [sm EXCEPT !.timesteps = @ \o [i \in DOMAIN samples |-> samples[i][1]],
               !.offsets = @ \o [i \in DOMAIN samples |-> samples[i][2]],
               !.size = @ \o [i \in DOMAIN samples |-> 0]]

SummaryShape ==
    /\ Len(summarized_mem.offsets) = Len(summarized_mem.timesteps) + 1
    /\ Len(summarized_mem.size) = Len(summarized_mem.timesteps)
    /\ summarized_mem.offsets[1] = 0
    /\ \A i \in 1..(Len(summarized_mem.timesteps) - 1) :
         summarized_mem.timesteps[i] < summarized_mem.timesteps[i + 1]
    /\ \A i \in DOMAIN summarized_mem.size : summarized_mem.size[i] = 0
    /\ total_summarized_mem = 0

\* the samples one step adds to the summary track: one per advance call
SummaryStep ==
    /\ total_summarized_mem' = total_summarized_mem
    /\ IF pc = "replay" /\ act_idx' = act_idx + 1
       THEN LET size == elements[ReplayedElem + 1].size IN
            IF ReplayedElem \notin Range(current)
            THEN summarized_mem' =
                   WithSamples(summarized_mem, <<(<<timestep, total_mem + size>>)>>)
            ELSE IF HitIndex < Len(current)
            THEN summarized_mem' =
                   WithSamples(summarized_mem, <<(<<timestep, total_mem>>),
                                                 (<<timestep + 3, total_mem - size>>)>>)
            ELSE summarized_mem' =
                   WithSamples(summarized_mem, <<(<<timestep, total_mem - size>>)>>)
       ELSE summarized_mem' = summarized_mem

\* C28: in every simulator state |summary.offsets| = |summary.timesteps| + 1
\* and |summary.size| = |summary.timesteps|; summary.timesteps is strictly
\* increasing; each advance call appends exactly one sample carrying the
\* timestep and total_mem current at the call (in a free that shifts blocks,
\* total_mem before the subtraction for advance(3) and after it for
\* advance(1)); every entry of summary.size is 0.
SummaryTrackShape == []SummaryShape /\ [][SummaryStep]_vars

\* a free that shifted a block left two summary samples three steps apart,
\* the first with the total before the subtraction
ShiftLeftTwoSummarySamples ==
    LET n == Len(summarized_mem.timesteps) IN
    /\ n >= 2
    /\ summarized_mem.timesteps[n] = summarized_mem.timesteps[n - 1] + 3
    /\ summarized_mem.offsets[n + 1] < summarized_mem.offsets[n]
    /\ summarized_mem.offsets[n + 1] = total_mem

\* s is an initial part of t
IsPrefix(s, t) == Len(s) <= Len(t) /\ \A i \in DOMAIN s : t[i] = s[i]

\* one step seen from the trajectories that exist when it begins
AppendOnlyStep ==
    \A k \in Regular :
      /\ k \in DOMAIN data'
      /\ data'[k].elem = data[k].elem
      /\ data'[k].size = data[k].size
      /\ data'[k].color = data[k].color
      /\ IsPrefix(data[k].timesteps, data'[k].timesteps)
      /\ IsPrefix(data[k].offsets, data'[k].offsets)
      /\ k \notin LivePositions => data'[k] = data[k]

\* C29: trajectories are append-only and frozen once closed: no operation
\* removes or rewrites an existing sample or changes a trajectory's elem,
\* size or color; after an element's free action has appended the closing
\* sample, its trajectory is never modified again by later actions or by
\* finalization.
TrajectoriesAppendOnly == [][AppendOnlyStep]_vars

\* a block closed by the first of two frees and untouched by the second
ClosedBeforeLaterFree ==
    /\ pc = "make_db"
    /\ Len(allocations) = 2
    /\ current = <<>>
    /\ Len(allocations[1].timesteps) = 2
    /\ Last(allocations[1].timesteps) < Last(allocations[2].timesteps)
    /\ Last(allocations[2].timesteps) < timestep

\* one step seen from the elements that exist when it begins
ElementsStableStep ==
    /\ \A i \in DOMAIN elements : i \in DOMAIN elements' /\ elements'[i] = elements[i]
    /\ pc \in {"initial", "replay", "finalize"} =>
         (elements' = elements /\ actions' = actions /\ trace' = trace)
    /\ pc \notin {"get_trace", "classify"} => elements' = elements

\* C30: elements are never deleted or reindexed: an element keeps its index
\* and its event record through the rest of classification, the simulation
\* and the write; the simulation phases leave elements, actions and the
\* input trace unchanged.
ElementsStable == [][ElementsStableStep]_vars

\* two elements of different events kept in order through a completed run
ElementsKeptThroughRun ==
    /\ pc = "exit"
    /\ exit_code = 0
    /\ Len(trace) = 3
    /\ elements = <<trace[1], trace[3]>>
    /\ trace[1] # trace[3]
    /\ actions = <<0, 0, 1>>

\* C31: for every trace, orphan frees included, after each action max_size
\* is at least total_mem + total_summarized_mem of every simulator state
\* reached so far, the state right after the initial-allocations phase
\* included.
MaxSizeCoversInitialPhase ==
    (pc \in {"replay", "finalize", "returned"} /\ act_idx >= 1) =>
      /\ max_size >= total_mem + total_summarized_mem
      /\ max_size >= SumSizes(initially_allocated, 1) + total_summarized_mem

\* the rows make_db has to write
RowCount == Len(allocations)

\* the rows so far are idx 0, 1, 2, ... in that order, what is committed is
\* the whole batches, and the archive steps see a closed connection
InsertOrder ==
    /\ \A i \in DOMAIN rows : rows[i].idx = i - 1
    /\ Len(rows) <= RowCount
    /\ pc \in {"insert", "db_return"} =>
         /\ batch_start % INSERT_BATCH_SIZE = 0
         /\ committed = Min(batch_start, RowCount)
         /\ Len(rows) = committed
         /\ conn = "open"
    /\ DbWritten =>
         /\ conn = "closed"
         /\ committed = RowCount
         /\ \A e \in 0..(RowCount - 1) : Cardinality({i \in DOMAIN rows : rows[i].idx = e}) = 1
    /\ (pc \in {"zip_open", "save_allocations", "save_database"}
        \/ \E i \in DOMAIN dest_entries : dest_entries[i] = DATABASE_FILE_NAME) =>
         conn = "closed"

\* a step inserts at most one batch, and a closed connection is not used
InsertStep ==
    /\ Len(rows') - Len(rows) <= INSERT_BATCH_SIZE
    /\ conn = "closed" =>
         (conn' = conn /\ rows' = rows /\ committed' = committed /\ batch_start' = batch_start)

\* C32: rows are inserted in ascending idx order in batches of at most
\* INSERT_BATCH_SIZE with one commit after each batch, so after k batches
\* exactly min(INSERT_BATCH_SIZE * k, N) rows are committed and each idx in
\* 0..N-1 is inserted exactly once; the connection is closed before the
\* database file is handed on, and is never used after being closed.
MakeDbOrdering == []InsertOrder /\ [][InsertStep]_vars

\* one whole batch committed and a shorter one still to come
OneBatchCommitted ==
    /\ pc = "insert"
    /\ RowCount = INSERT_BATCH_SIZE + 1
    /\ committed = INSERT_BATCH_SIZE
    /\ batch_start = INSERT_BATCH_SIZE

\* C33: every pipeline variant processes only alloc, free and free_completed
\* events, so that the variants produce the same elements: no element comes
\* from an event of another kind.
OnlyAllocAndFreeProcessed ==
    \A i \in DOMAIN elements : elements[i].action \in {"alloc", "free", "free_completed"}

\* the sizes of the live entries at positions below k, summed
RECURSIVE SizeBelow(_)
SizeBelow(k) ==
    IF k <= 1 THEN 0 ELSE data[current_data[k - 1]].size + SizeBelow(k - 1)

\* C34: after the initial phase and after every action, the last offset of
\* the trajectory at live-set position k is the sum of the sizes of the live
\* entries below k, so the live blocks tile [0, total_mem) in live-set order,
\* and every offset ever recorded is >= 0.
PackedLayout ==
    pc \in {"replay", "finalize"} =>
      /\ \A k \in DOMAIN current_data :
           Last(data[current_data[k]].offsets) = SizeBelow(k)
      /\ total_mem = SizeBelow(Len(current_data) + 1)
      /\ \A p \in DOMAIN data : \A i \in DOMAIN data[p].offsets : data[p].offsets[i] >= 0

\* two blocks packed again after the block under them was freed
RepackedAfterFree ==
    /\ pc \in {"replay", "finalize"}
    /\ Len(current) = 2
    /\ Len(data) = 3
    /\ LivePositions = {2, 3}
    /\ Len(data[2].offsets) = 3
    /\ Last(data[2].offsets) = 0
    /\ Last(data[3].offsets) = data[2].size

\* C35: the live set never contains the same element index twice; the two
\* parallel sequences have equal length and position k of one refers to the
\* same element as position k of the other; so the tail-to-head lookup finds
\* at most one position, and the second visit of an element in actions finds
\* the entry created by its first visit.
LiveSetHasNoDuplicates ==
    /\ Len(current) = Len(current_data)
    /\ \A i, j \in DOMAIN current : current[i] = current[j] => i = j
    /\ \A k \in DOMAIN current :
         current_data[k] \in DOMAIN data /\ data[current_data[k]].elem = current[k]
    /\ (pc = "replay" /\ Visits(ReplayedElem, act_idx) = 1) =>
         /\ Cardinality({i \in DOMAIN current : current[i] = ReplayedElem}) = 1
         /\ data[current_data[HitIndex]].elem = ReplayedElem
         /\ Cardinality(PositionsOf(ReplayedElem)) = 1

\* the second visit of the lower of two live blocks is about to be replayed
SecondVisitPending ==
    /\ pc = "replay"
    /\ act_idx = 2
    /\ Visits(ReplayedElem, act_idx) = 1
    /\ Len(current) = 2
    /\ HitIndex = 1

\* event ev appends an action in the classifier
MakesAction(ev) == ev.action \in {"alloc", "free", "free_completed"}

\* the event that produced the action a replay step consumes
ReplayedEvent == SelectSeq(trace, MakesAction)[act_idx + 1]

\* C36: during replay an action is a miss exactly when it was produced by an
\* alloc event and a hit exactly when it was produced by a free or
\* free_completed event, matched or orphan.
HitMissIsEventKind ==
    /\ pc \in {"initial", "replay", "finalize"} =>
         Len(SelectSeq(trace, MakesAction)) = Len(actions)
    /\ pc = "replay" =>
         /\ ReplayedElem \notin Range(current) <=> ReplayedEvent.action = "alloc"
         /\ ReplayedElem \in Range(current) <=>
              ReplayedEvent.action \in {"free", "free_completed"}

\* an orphan free_completed about to be replayed after an alloc
OrphanFreePending ==
    /\ pc = "replay"
    /\ act_idx = 1
    /\ ReplayedEvent.action = "free_completed"
    /\ ReplayedElem \in Range(initially_allocated)
    /\ Len(current) = 2

\* C37: get_trace returns a device trace only when 0 <= device_id < number
\* of device traces: a negative device_id never selects a trace and ends the
\* run with exit code 1.
NegativeDeviceRejected ==
    (device_id < 0 /\ pc # "get_trace") =>
      /\ pc = "exit"
      /\ exit_code = 1
      /\ NothingRun

\* something has happened that must end the application
ShutdownTriggered ==
    \/ gui_process = "stopped"
    \/ viewer_process = "stopped"
    \/ terminate_event
    \/ interrupt # "none"

ChildrenStopped == gui_process = "stopped" /\ viewer_process = "stopped"

\* C38: when the orchestrator has exited, whatever
\* made it leave (a child stopping, the user closing the window, an
\* interrupt), its status is 0 and no child is alive.
ShutdownExitsZero ==
    main_pc = "done" => (main_exit = 0 /\ ChildrenStopped)

\* What the shutdown does guarantee: terminate_event is never cleared once
\* set; the orchestrator's status is 0 exactly when no KeyboardInterrupt
\* reached it outside the try block of the polling loop; and, under fair
\* scheduling of the orchestrator, every trigger is followed by its exit with
\* both children stopped.
CleanShutdown ==
    /\ [][terminate_event => terminate_event']_vars
    /\ [](main_pc = "done" =>
            /\ ChildrenStopped
            /\ (main_exit = 0 <=> interrupt # "uncaught"))
    /\ [](main_pc # "done" => main_exit = -1)
    /\ (ShutdownTriggered ~> (main_pc = "done" /\ ChildrenStopped))

\* the orchestrator has left after a shutdown it was not interrupted into
ShutdownCompleted ==
    /\ main_pc = "done"
    /\ main_exit = 0
    /\ interrupt = "none"
    /\ terminate_event
    /\ ChildrenStopped

\* at every state of the REPL: a non-empty history has its index between 0
\* and its length, no read of the history has been out of bounds, and no
\* entry repeats the entry before it
HistoryInBounds ==
    /\ command_history # <<>> =>
         (0 <= history_index /\ history_index <= Len(command_history))
    /\ reads_in_bounds
    /\ \A i \in 1..(Len(command_history) - 1) :
         command_history[i] # command_history[i + 1]

\* a submit of the command that is already the last entry appends nothing,
\* and every non-empty submit leaves the index at the length of the history
SubmitStep ==
    (OnSubmit /\ Strip(input_text) # <<>>) =>
        /\ history_index' = Len(command_history')
        /\ (command_history # <<>> /\ Last(command_history) = Strip(input_text))
             => command_history' = command_history
        /\ (command_history = <<>> \/ Last(command_history) # Strip(input_text))
             => command_history' = Append(command_history, Strip(input_text))

UpAtFirstStep ==
    (OnUpArrow /\ command_history # <<>> /\ history_index = 0) =>
        (history_index' = 0 /\ input_text' = command_history[1])

DownAtEndStep ==
    (OnDownArrow /\ command_history # <<>>
        /\ history_index >= Len(command_history) - 1) =>
        (history_index' = Len(command_history) /\ input_text' = <<>>)

\* C39: after any sequence of submit, up-arrow and down-arrow events,
\* whenever command_history is non-empty 0 <= history_index <=
\* len(command_history) and every read of command_history[history_index] is
\* in bounds; a submitted command equal to the last history entry is not
\* appended again; after every non-empty submit history_index ==
\* len(command_history); up-arrow at index 0 stays at index 0 and down-arrow
\* at the end stays at len(command_history) with the input cleared.
ReplHistory ==
    /\ []HistoryInBounds
    /\ [][SubmitStep]_vars
    /\ [][UpAtFirstStep]_vars
    /\ [][DownAtEndStep]_vars

\* the user has walked up to the oldest of several commands
AtOldestCommand ==
    /\ Len(command_history) >= 2
    /\ history_index = 0
    /\ input_text = command_history[1]
    /\ repl_variant = "tui"

====
